---- MODULE Spec2Model ----
(***************************************************************************)
(* Neon Velocity (pointercyber/carfun): the React component App of         *)
(* src/unnamed/part_001 as a state machine.                                *)
(*                                                                         *)
(* Hook state (useState) lives in two records: st is the state of the last *)
(* committed render, q is that state with every queued setState applied in *)
(* order (what the next commit will render).  Refs (useRef) are plain      *)
(* variables, mutated in place.  update and gameOver are useCallback       *)
(* closures: updateCl holds the hook values the memoized update captured   *)
(* in the render that created it.  A frame callback handed to              *)
(* requestAnimationFrame is that closure, so a tick reads the values of    *)
(* the render that created its closure, not the current ones.              *)
(*                                                                         *)
(* Lengths are in units of 1/2000 pixel, difficulty in hundredths, random  *)
(* draws in hundredths, times in milliseconds, so that every product the   *)
(* code forms is an integer.  Floating-point rounding is not modelled.     *)
(***************************************************************************)
EXTENDS Integers, Sequences, FiniteSets, TLC

VARIABLES
    st,           \* hook state of the committed render
    q,            \* hook state with the queued updates applied
    updateCl,     \* values captured by the memoized update / gameOver
    keyCl,        \* values captured by the subscribed keydown handler
    effDeps,      \* deps the frame-loop effect last ran with
    frames,       \* pending requestAnimationFrame callbacks, oldest first
    playerX,      \* playerRef.current.x
    enemies,      \* enemiesRef.current
    powerUps,     \* powerUpsRef.current
    sinceSpawn,   \* time of the last frame - lastSpawnTimeRef.current
    sinceReward,  \* time of the last frame - lastCoinRewardTimeRef.current
    ticks,        \* frame callbacks run so far
    steers,       \* ticks so far in which a steer intent was set, counted
                  \* up to MaxSteerTicks
    lag,          \* frame callbacks run since React last caught up
    ev            \* what the last step did (history variable)

vars == <<st, q, updateCl, keyCl, effDeps, frames, playerX, enemies, powerUps,
          sinceSpawn, sinceReward, ticks, steers, lag, ev>>

----------------------------------------------------------------------------
(* Program constants                                                       *)

CANVAS_WIDTH == 400
CANVAS_HEIGHT == 600
CAR_WIDTH == 40
CAR_HEIGHT == 70
INITIAL_ENEMY_SPEED == 7
ENEMY_SPAWN_RATE == 1200
SHIELD_FRAMES == 300
BOOST_FRAMES == 200
MULTIPLIER_FRAMES == 400
SLIDE_FRAMES == 60
LASER_PERIOD == 60
PLATFORM_PERIOD == 40
REWARD_PERIOD == 5000
PLACE_ATTEMPTS == 10
SCORE_STEP == 100
SCORE_AWARD == 10

\* One pixel, in model units.
U == 2 * 1000

MaxX == (CANVAS_WIDTH - CAR_WIDTH) * U
\* playerRef.current.y is set once and never written again.
PlayerY == (CANVAS_HEIGHT - CAR_HEIGHT - 40) * U
CenterX == (CANVAS_WIDTH \div 2 - CAR_WIDTH \div 2) * U

----------------------------------------------------------------------------
(* Bounds of the model                                                     *)

\* Frame callbacks run in one behaviour.
MaxTicks == 75
\* Ticks of one behaviour in which the player steers.
MaxSteerTicks == 1
\* Frame callbacks that may run while a render, a commit or a passive effect
\* is still outstanding.
MaxLag == 1
\* What an earlier session left in localStorage, for the launches that
\* start from saved values.
SavedCoins == 60
SavedHighScore == 10

\* Milliseconds between two frames (a 120 Hz display).
FrameTimes == {8}
\* Values of Math.random() * (CANVAS_WIDTH - CAR_WIDTH), in pixels.
SpawnXs == {8, 137, 170}
\* Values of the kind draw Math.random(), in hundredths: one in every range
\* the chain of comparisons tells apart.
RandSet == {20, 45, 55, 65, 80}
\* Values of 3 + Math.random() * 3, in tenths.
PullBases == {30}
\* Values of 0.8 + Math.sin(time / 250) * 0.4, in tenths.
TimeFactors == {4, 8, 12}
\* Values of Math.sin(time / 100) * 3, in pixels.
Drifts == {-3, 0, 3}
\* The draws of the frames of Drive and of Cruise.
DriveXs == {8}
DriveRands == {45, 80}
CruiseXs == {170}
CruiseRands == {20, 80}
\* The frame times and draws of the frames of Rally.
RallyTimes == {50}
RallyXs == {8}
RallyRands == {80}
\* The draws of the frames of Coast, and the length of its one long frame.
CoastXs == {8}
CoastRands == {45, 80}
StallTimes == {400}
JamXs == {170}
ThawTimes == {8, 2000}
ThawRands == {10, 27, 32, 37, 45, 55, 65, 80}

----------------------------------------------------------------------------
(* Helpers                                                                 *)

Max(a, b) == IF a >= b THEN a ELSE b
Min(a, b) == IF a <= b THEN a ELSE b
Abs(a) == IF a >= 0 THEN a ELSE -a
Sign(a) == IF a > 0 THEN 1 ELSE IF a < 0 THEN -1 ELSE 0

Levels == {"EASY", "NORMAL", "HARD"}
GameStates == {"START", "PLAYING", "GAMEOVER", "SETTINGS"}

\* UNLOCKABLES: kind of item, the id buyItem is called with, cost.
Unlockables ==
    { [type |-> "color", id |-> "#00FF00", cost |-> 0],
      [type |-> "color", id |-> "#3b82f6", cost |-> 50],
      [type |-> "color", id |-> "#ef4444", cost |-> 100],
      [type |-> "color", id |-> "#a855f7", cost |-> 150],
      [type |-> "color", id |-> "#f59e0b", cost |-> 500],
      [type |-> "color", id |-> "#06b6d4", cost |-> 200],
      [type |-> "color", id |-> "#ec4899", cost |-> 250],
      [type |-> "spoiler", id |-> "NONE", cost |-> 0],
      [type |-> "spoiler", id |-> "SPORT", cost |-> 100],
      [type |-> "spoiler", id |-> "WING", cost |-> 250],
      [type |-> "spoiler", id |-> "GT", cost |-> 500],
      [type |-> "tire", id |-> "STANDARD", cost |-> 0],
      [type |-> "tire", id |-> "GRIP", cost |-> 200],
      [type |-> "tire", id |-> "DRIFT", cost |-> 200] }

\* The useState initial values.
HookInit ==
    [ gameState |-> "START", score |-> 0, highScore |-> 0, difficulty |-> 100,
      difficultyLevel |-> "NORMAL", tireType |-> "STANDARD",
      activeShield |-> 0, activeMultiplier |-> 0, activeBoost |-> 0,
      isSliding |-> 0, coins |-> 0,
      unlockedItems |-> [colors |-> {"#00FF00"}, spoilers |-> {"NONE"},
                         tires |-> {"STANDARD"}] ]

\* The hook values a newly created update (and the gameOver it calls) reads.
Capture(s) ==
    [ gameState |-> s.gameState, score |-> s.score, highScore |-> s.highScore,
      difficulty |-> s.difficulty, difficultyLevel |-> s.difficultyLevel,
      tireType |-> s.tireType, activeShield |-> s.activeShield,
      activeMultiplier |-> s.activeMultiplier, activeBoost |-> s.activeBoost,
      isSliding |-> s.isSliding ]

\* useCallback: a new closure only when a dependency changed.  update depends
\* on [gameState, score, difficulty, gameOver], gameOver on [score, highScore].
Render(s, cl) ==
    IF <<s.gameState, s.score, s.difficulty, s.highScore>>
         # <<cl.gameState, cl.score, cl.difficulty, cl.highScore>>
    THEN Capture(s)
    ELSE cl

\* The keydown handler calls the startGame of the render that subscribed it.
KeyCapture(s) ==
    [gameState |-> s.gameState, difficultyLevel |-> s.difficultyLevel]

\* cancelAnimationFrame(requestRef.current): the frame requestRef names, if
\* it is still pending.
CancelFrame(fs) == SelectSeq(fs, LAMBDA f : ~f.isRef)

\* requestRef.current = requestAnimationFrame(cl)
RequestFrame(fs, cl) ==
    LET old == [i \in 1..Len(fs) |-> [fs[i] EXCEPT !.isRef = FALSE]]
    IN  Append(old, [cl |-> cl, isRef |-> TRUE])

\* The frame-loop effect without the cleanup of its previous run.
LoopEffectNoCleanup(fs, s, cl) ==
    IF s.gameState = "PLAYING"
    THEN RequestFrame(fs, cl)
    ELSE CancelFrame(fs)

\* The frame-loop effect: cleanup of the previous run, then the body with the
\* committed gameState and update.
LoopEffect(fs, s, cl) ==
    IF s.gameState = "PLAYING"
    THEN RequestFrame(CancelFrame(fs), cl)
    ELSE CancelFrame(CancelFrame(fs))

LoopEffectDue(deps, s, cl) == deps # [gameState |-> s.gameState, cl |-> cl]
KeyEffectDue(kc, s) == kc.gameState # s.gameState

----------------------------------------------------------------------------
(* Difficulty                                                              *)

\* startGame: the difficulty a run starts with.
StartDifficulty(level) ==
    IF level = "EASY" THEN 70 ELSE IF level = "HARD" THEN 150 ELSE 100

\* update, step 6: baseDiff.
BaseDifficulty(level) ==
    IF level = "EASY" THEN 120 ELSE IF level = "HARD" THEN 350 ELSE 250

\* update, step 6: baseDiff + Math.floor(score / 100) * 0.35
TickDifficulty(level, score) ==
    BaseDifficulty(level) + (score \div SCORE_STEP) * 35

----------------------------------------------------------------------------
(* update, step 1: the player                                              *)

Clamp(x) == Max(0, Min(MaxX, x))

BasePlayerSpeed(tire) ==
    IF tire = "GRIP" THEN 9 ELSE IF tire = "DRIFT" THEN 11 ELSE 7

\* basePlayerSpeed * (activeBoost > 0 ? 1.5 : 1)
CurrentSpeed(cl) ==
    IF cl.activeBoost > 0
    THEN (BasePlayerSpeed(cl.tireType) * U * 3) \div 2
    ELSE BasePlayerSpeed(cl.tireType) * U

\* Steering left with the Math.max(0, ...) left out.
SteerLeftUnclamped(x, speed) == x - speed

SteerLeft(x, speed) == Max(0, x - speed)
SteerRight(x, speed) == Min(MaxX, x + speed)

\* The move with the right intent applied before the left one.
MovePlayerRightFirst(x, cl, left, right, drift) ==
    IF (left \/ right) /\ cl.isSliding = 0
    THEN LET x1 == IF right THEN SteerRight(x, CurrentSpeed(cl)) ELSE x
         IN  IF left THEN SteerLeft(x1, CurrentSpeed(cl)) ELSE x1
    ELSE IF cl.isSliding > 0
         THEN Clamp(x + drift)
         ELSE x

\* drift is the value of Math.sin(time / 100) * 3 at this frame.
MovePlayer(x, cl, left, right, drift) ==
    IF (left \/ right) /\ cl.isSliding = 0
    THEN LET x1 == IF left THEN SteerLeft(x, CurrentSpeed(cl)) ELSE x
         IN  IF right THEN SteerRight(x1, CurrentSpeed(cl)) ELSE x1
    ELSE IF cl.isSliding > 0
         THEN Clamp(x + drift)
         ELSE x

\* The player's vertical span meets the enemy's.
InYRange(e) ==
    /\ PlayerY < e.y + e.height
    /\ PlayerY + CAR_HEIGHT * U > e.y

PullsPlayer(e) == e.type = "GRAVITY" /\ InYRange(e)

\* One gravity zone: x += pull * timeFactor, then clamp.
PullStep(x, e, tf) == Clamp(x + (e.pull * tf) \div 10)

\* enemiesRef.current.forEach(...), from entry i on.
RECURSIVE GravityPull(_, _, _, _)
GravityPull(x, es, i, tf) ==
    IF i > Len(es) THEN x
    ELSE GravityPull(IF PullsPlayer(es[i]) THEN PullStep(x, es[i], tf) ELSE x,
                     es, i + 1, tf)

----------------------------------------------------------------------------
(* update, step 2: spawning                                                *)

\* The spawn test with the interval left out of the comparison.
SpawnDueEveryFrame(elapsed, cl) == elapsed > 0

\* time - lastSpawnTimeRef.current > spawnInterval, with
\* spawnInterval = (ENEMY_SPAWN_RATE / difficulty) * (activeBoost > 0 ? 0.5 : 1)
SpawnDue(elapsed, cl) ==
    elapsed * cl.difficulty * 2
        > ENEMY_SPAWN_RATE * 100 * (IF cl.activeBoost > 0 THEN 1 ELSE 2)

\* difficulty > 1.5 && Math.random() > 0.5 ? 2 : 1
SpawnCount(cl, coin) == IF cl.difficulty > 150 /\ coin THEN 2 ELSE 1

Conflict(spawnedX, x) ==
    \E k \in 1..Len(spawnedX) : Abs(spawnedX[k] - x) < (CAR_WIDTH + 20) * U

\* The placement loop without its retry: the first draw is taken as it is.
PlaceXOnce(spawnedX, draws, attempts) ==
    [x |-> draws[attempts], attempts |-> attempts]

\* The do-while that draws x: draws[k] is the k-th value drawn.
RECURSIVE PlaceX(_, _, _)
PlaceX(spawnedX, draws, attempts) ==
    IF Conflict(spawnedX, draws[attempts]) /\ attempts < PLACE_ATTEMPTS
    THEN PlaceX(spawnedX, draws, attempts + 1)
    ELSE [x |-> draws[attempts], attempts |-> attempts]

\* The chain with the power-up test moved to the front and its `i === 0`
\* left out.
SpawnKindAnySlot(i, rand, d) ==
    IF rand < 25 THEN "POWERUP"
    ELSE IF rand < 40 THEN "COIN"
    ELSE IF rand < 35 /\ d > 120 THEN "BARRIER"
    ELSE IF rand < 30 /\ d > 110 THEN "OIL"
    ELSE IF rand < 40 /\ d > 130 THEN "LASER"
    ELSE IF rand < 50 /\ d > 140 THEN "GRAVITY"
    ELSE IF rand < 60 /\ d > 150 THEN "PLATFORM"
    ELSE IF rand < 70 /\ d > 160 THEN "CHASER"
    ELSE "CAR"

\* The chain with the flicker platform's difficulty test left out.
SpawnKindUngated(i, rand, d) ==
    IF rand < 40 THEN "COIN"
    ELSE IF i = 0 /\ rand < 25 THEN "POWERUP"
    ELSE IF rand < 35 /\ d > 120 THEN "BARRIER"
    ELSE IF rand < 30 /\ d > 110 THEN "OIL"
    ELSE IF rand < 40 /\ d > 130 THEN "LASER"
    ELSE IF rand < 50 /\ d > 140 THEN "GRAVITY"
    ELSE IF rand < 60 THEN "PLATFORM"
    ELSE IF rand < 70 /\ d > 160 THEN "CHASER"
    ELSE "CAR"

\* The chain of comparisons on rand, for slot i (0 or 1) at difficulty d.
SpawnKind(i, rand, d) ==
    IF rand < 40 THEN "COIN"
    ELSE IF i = 0 /\ rand < 25 THEN "POWERUP"
    ELSE IF rand < 35 /\ d > 120 THEN "BARRIER"
    ELSE IF rand < 30 /\ d > 110 THEN "OIL"
    ELSE IF rand < 40 /\ d > 130 THEN "LASER"
    ELSE IF rand < 50 /\ d > 140 THEN "GRAVITY"
    ELSE IF rand < 60 /\ d > 150 THEN "PLATFORM"
    ELSE IF rand < 70 /\ d > 160 THEN "CHASER"
    ELSE "CAR"

\* INITIAL_ENEMY_SPEED * difficulty * m, m in tenths.
EnemySpeed(d, m) == INITIAL_ENEMY_SPEED * d * m * 2

Enemy(type, x, w, h, speed) ==
    [ type |-> type, x |-> x, y |-> -CAR_HEIGHT * U, width |-> w * U,
      height |-> h * U, speed |-> speed, vx |-> 0, direction |-> 0,
      timer |-> 0, active |-> FALSE, pull |-> 0 ]

PowerUp(type, x, size, speed) ==
    [ type |-> type, x |-> x, y |-> -CAR_HEIGHT * U, width |-> size * U,
      height |-> size * U, speed |-> speed ]

PowerUpTypes == <<"SHIELD", "BOOST", "MULTIPLIER">>

\* The entity one slot creates.  in.up is Math.random() > 0.5, in.base is
\* 3 + Math.random() * 3, in.pt is Math.floor(Math.random() * 3).
SpawnEntity(kind, x, d, in) ==
    CASE kind = "COIN" ->
           PowerUp("COIN", x + ((CAR_WIDTH - 25) * U) \div 2, 25, EnemySpeed(d, 10))
      [] kind = "POWERUP" ->
           PowerUp(PowerUpTypes[in.pt + 1], x, 30, EnemySpeed(d, 10))
      [] kind = "BARRIER" ->
           [ Enemy("BARRIER", x, (CAR_WIDTH * 3) \div 2, 30, EnemySpeed(d, 8))
               EXCEPT !.vx = 40 * d, !.direction = IF in.up THEN 1 ELSE -1 ]
      [] kind = "OIL" ->
           Enemy("OIL", Max(10 * U, Min((CANVAS_WIDTH - 110) * U, x)), 100, 50,
                 EnemySpeed(d, 10))
      [] kind = "LASER" ->
           Enemy("LASER", 0, CANVAS_WIDTH, 10, EnemySpeed(d, 7))
      [] kind = "GRAVITY" ->
           [ Enemy("GRAVITY", 0, CANVAS_WIDTH, 150, EnemySpeed(d, 6))
               EXCEPT !.pull = (IF in.up THEN 1 ELSE -1) * in.base * d * 2 ]
      [] kind = "PLATFORM" ->
           [ Enemy("PLATFORM", x, (CAR_WIDTH * 3) \div 2, 20, EnemySpeed(d, 10))
               EXCEPT !.active = TRUE ]
      [] kind = "CHASER" ->
           Enemy("CHASER", x, CAR_WIDTH, CAR_HEIGHT, EnemySpeed(d, 11))
      [] OTHER ->
           Enemy("CAR", x, CAR_WIDTH, CAR_HEIGHT, EnemySpeed(d, 10))

IsCollectible(kind) == kind \in {"COIN", "POWERUP"}

\* One pass of the for loop: slot i with the draws in.  w holds spawnedX and
\* the two collections.
SpawnSlot(w, i, d, in) ==
    LET place == PlaceX(w.spawnedX,
                        [k \in 1..PLACE_ATTEMPTS |->
                            (IF k = 1 THEN in.d1 ELSE in.d2) * U], 1)
        kind == SpawnKind(i, in.rand, d)
        ent == SpawnEntity(kind, place.x, d, in)
    IN  [ spawnedX |-> Append(w.spawnedX, place.x),
          enemies |-> IF IsCollectible(kind) THEN w.enemies
                      ELSE Append(w.enemies, ent),
          powerUps |-> IF IsCollectible(kind) THEN Append(w.powerUps, ent)
                       ELSE w.powerUps,
          attempts |-> Append(w.attempts, place.attempts),
          kinds |-> Append(w.kinds, ent.type),
          rands |-> Append(w.rands, in.rand) ]

\* The whole spawn step; ins holds the draws of the slots.
Spawn(es, ps, cl, coin, ins) ==
    LET w0 == [spawnedX |-> <<>>, enemies |-> es, powerUps |-> ps,
               attempts |-> <<>>, kinds |-> <<>>, rands |-> <<>>]
        w1 == SpawnSlot(w0, 0, cl.difficulty, ins[1])
    IN  IF SpawnCount(cl, coin) = 2
        THEN SpawnSlot(w1, 1, cl.difficulty, ins[2])
        ELSE w1

----------------------------------------------------------------------------
(* update, steps 0, 3 and 4: reward, collectibles, obstacles               *)

\* The four inequalities of the rectangle test, player at x against entity e.
Overlap(x, e) ==
    /\ x < e.x + e.width
    /\ x + CAR_WIDTH * U > e.x
    /\ PlayerY < e.y + e.height
    /\ PlayerY + CAR_HEIGHT * U > e.y

\* setCoins(c => c + 1)
AddCoin(h) == [h EXCEPT !.coins = @ + 1]

\* The pickup with the type tests left out: every effect is applied.
PickupAll(h, p) ==
    AddCoin([h EXCEPT !.activeShield = SHIELD_FRAMES, !.activeBoost = BOOST_FRAMES,
                      !.activeMultiplier = MULTIPLIER_FRAMES])

\* The effect of picking up collectible p.
Pickup(h, p) ==
    LET h1 == IF p.type = "SHIELD" THEN [h EXCEPT !.activeShield = SHIELD_FRAMES] ELSE h
        h2 == IF p.type = "BOOST" THEN [h1 EXCEPT !.activeBoost = BOOST_FRAMES] ELSE h1
        h3 == IF p.type = "MULTIPLIER"
              THEN [h2 EXCEPT !.activeMultiplier = MULTIPLIER_FRAMES] ELSE h2
    IN  IF p.type = "COIN" THEN AddCoin(h3) ELSE h3

\* The power-up filter with `return p.y <= CANVAS_HEIGHT` turned into
\* `return true`: a collectible past the bottom stays in the collection.
RECURSIVE UpdatePowerUpsKeepsLost(_, _, _, _)
UpdatePowerUpsKeepsLost(a, ps, i, x) ==
    IF i > Len(ps) THEN a
    ELSE LET p == [ps[i] EXCEPT !.y = @ + ps[i].speed]
         IN  IF Overlap(x, p)
             THEN UpdatePowerUpsKeepsLost([a EXCEPT !.h = Pickup(a.h, p),
                                                    !.picked = @ + 1], ps, i + 1, x)
             ELSE UpdatePowerUpsKeepsLost(
                      [a EXCEPT !.keep = Append(@, p),
                                !.lost = @ + (IF p.y <= CANVAS_HEIGHT * U THEN 0 ELSE 1)],
                      ps, i + 1, x)

\* powerUpsRef.current.filter(...), from entry i on.  a holds the entries
\* kept so far and the queued hook state.
RECURSIVE UpdatePowerUps(_, _, _, _)
UpdatePowerUps(a, ps, i, x) ==
    IF i > Len(ps) THEN a
    ELSE LET p == [ps[i] EXCEPT !.y = @ + ps[i].speed]
         IN  IF Overlap(x, p)
             THEN UpdatePowerUps([a EXCEPT !.h = Pickup(a.h, p),
                                           !.picked = @ + 1], ps, i + 1, x)
             ELSE IF p.y <= CANVAS_HEIGHT * U
                  THEN UpdatePowerUps([a EXCEPT !.keep = Append(@, p)], ps, i + 1, x)
                  ELSE UpdatePowerUps([a EXCEPT !.lost = @ + 1], ps, i + 1, x)

\* gameOver with the setGameState('GAMEOVER') left out.
GameOverKeepsPlaying(h, cl) ==
    IF cl.score > cl.highScore THEN [h EXCEPT !.highScore = cl.score] ELSE h

\* gameOver, as update's closure holds it: score and highScore are the
\* values of the render that created the closure.
GameOver(h, cl) ==
    LET h1 == [h EXCEPT !.gameState = "GAMEOVER"]
    IN  IF cl.score > cl.highScore
        THEN [h1 EXCEPT !.highScore = cl.score]
        ELSE h1

\* A filter in which chasers keep their height.
FallChaserHovers(e, cl) ==
    IF e.type = "CHASER" THEN e
    ELSE [e EXCEPT !.y = @ + (IF cl.activeBoost > 0 THEN (e.speed * 3) \div 2
                              ELSE e.speed)]

\* enemy.y += enemy.speed * (activeBoost > 0 ? 1.5 : 1)
Fall(e, cl) ==
    [e EXCEPT !.y = @ + (IF cl.activeBoost > 0 THEN (e.speed * 3) \div 2 ELSE e.speed)]

\* Moving barrier
Bounce(e) ==
    IF e.type = "BARRIER"
    THEN LET x1 == e.x + e.vx * e.direction
         IN  [e EXCEPT !.x = x1,
                       !.direction = IF x1 <= 0 \/ x1 + e.width >= CANVAS_WIDTH * U
                                     THEN -e.direction ELSE e.direction]
    ELSE e

\* Laser and platform: timer += 1; past the period, toggle and reset.
Flicker(e) ==
    IF e.type \in {"LASER", "PLATFORM"}
    THEN IF e.timer + 1 > (IF e.type = "LASER" THEN LASER_PERIOD ELSE PLATFORM_PERIOD)
         THEN [e EXCEPT !.active = ~e.active, !.timer = 0]
         ELSE [e EXCEPT !.timer = e.timer + 1]
    ELSE e

\* A chaser that always moves by its full chase speed.
ChaseOvershoots(e, x, cl) ==
    IF e.type = "CHASER"
    THEN [e EXCEPT !.x = @ + Sign(x - e.x) * 30 * cl.difficulty]
    ELSE e

\* Chaser: chaseSpeed = 1.5 * difficulty
Chase(e, x, cl) ==
    IF e.type = "CHASER"
    THEN [e EXCEPT !.x = @ + Sign(x - e.x) * Min(Abs(x - e.x), 30 * cl.difficulty)]
    ELSE e

MoveEnemy(e, x, cl) == Chase(Flicker(Bounce(Fall(e, cl))), x, cl)

\* The pass-through branches without the one for the gravity field.
PassesThroughButGravity(e) ==
    \/ e.type = "OIL"
    \/ e.type = "LASER" /\ ~e.active
    \/ e.type = "PLATFORM" /\ ~e.active

\* The overlap branches that return true before the shield test.
PassesThrough(e) ==
    \/ e.type = "OIL"
    \/ e.type = "GRAVITY"
    \/ e.type = "LASER" /\ ~e.active
    \/ e.type = "PLATFORM" /\ ~e.active

\* if (activeShield > 0)
Shielded(cl) == cl.activeShield > 0

\* The award taken from the score.
AwardTaken(h, cl) == [h EXCEPT !.score = @ - SCORE_AWARD]

\* setScore(s => s + 10 * (activeMultiplier > 0 ? 2 : 1))
Award(h, cl) ==
    [h EXCEPT !.score = @ + SCORE_AWARD * (IF cl.activeMultiplier > 0 THEN 2 ELSE 1)]

\* The scroll-past test without the exemption of oil and gravity fields.
ScrollPastPaysAll(a, e, cl) ==
    IF e.y > CANVAS_HEIGHT * U
    THEN [a EXCEPT !.h = Award(a.h, cl), !.passed = @ + 1,
                   !.gone = @ \cup {e.type}]
    ELSE [a EXCEPT !.keep = Append(@, e)]

\* The scroll-past test and what it does to entity e (already moved).
ScrollPast(a, e, cl) ==
    IF e.y > CANVAS_HEIGHT * U
    THEN IF e.type # "OIL" /\ e.type # "GRAVITY"
         THEN [a EXCEPT !.h = Award(a.h, cl), !.passed = @ + 1,
                        !.gone = @ \cup {e.type}]
         ELSE [a EXCEPT !.gone = @ \cup {e.type}]
    ELSE [a EXCEPT !.keep = Append(@, e)]

\* gameOver's localStorage.setItem is reached, and throws when the storage
\* refuses the write (a.fault): nothing between it and the frame callback's
\* caller catches.
StoreThrows(a, cl) == a.fault /\ cl.score > cl.highScore

\* One call of the filter callback on enemy e0.  a.all is the array being
\* filtered, its entries changed in place as the callback reaches them; once
\* the callback has thrown, no later entry is reached.
UpdateEnemy(a, e0, x, cl) ==
    IF a.thrown THEN [a EXCEPT !.all = Append(@, e0)]
    ELSE
    LET e == MoveEnemy(e0, x, cl)
        c == [a EXCEPT !.all = Append(@, e)]
        b == [c EXCEPT !.touched = @ \cup {e.type}]
    IN  IF Overlap(x, e)
        THEN IF e.type = "OIL"
             THEN [b EXCEPT !.h.isSliding = SLIDE_FRAMES, !.keep = Append(@, e)]
             ELSE IF PassesThrough(e)
             THEN [b EXCEPT !.keep = Append(@, e)]
             ELSE IF Shielded(cl)
             THEN [b EXCEPT !.h.activeShield = 0, !.absorbed = @ + 1]
             ELSE IF StoreThrows(b, cl)
             THEN [b EXCEPT !.h = GameOver(b.h, cl), !.crashes = @ + 1,
                            !.thrown = TRUE]
             ELSE ScrollPast([b EXCEPT !.h = GameOver(b.h, cl), !.crashes = @ + 1],
                             e, cl)
        ELSE ScrollPast(c, e, cl)

\* enemiesRef.current.filter(...), from entry i on.
RECURSIVE UpdateEnemies(_, _, _, _, _)
UpdateEnemies(a, es, i, x, cl) ==
    IF i > Len(es) THEN a
    ELSE UpdateEnemies(UpdateEnemy(a, es[i], x, cl), es, i + 1, x, cl)

\* The decay step without its four "> 0" tests.
DecayUnguarded(h, cl) ==
    [h EXCEPT !.activeShield = @ - 1, !.activeMultiplier = @ - 1,
              !.activeBoost = @ - 1, !.isSliding = @ - 1]

\* Step 5: each timer the closure holds as positive is decremented.
Decay(h, cl) ==
    [h EXCEPT !.activeShield = IF cl.activeShield > 0 THEN @ - 1 ELSE @,
              !.activeMultiplier = IF cl.activeMultiplier > 0 THEN @ - 1 ELSE @,
              !.activeBoost = IF cl.activeBoost > 0 THEN @ - 1 ELSE @,
              !.isSliding = IF cl.isSliding > 0 THEN @ - 1 ELSE @]

\* Step 6: setDifficulty(baseDiff + Math.floor(score / 100) * 0.35)
SetDifficulty(h, cl) ==
    [h EXCEPT !.difficulty = TickDifficulty(cl.difficultyLevel, cl.score)]

\* Step 0: the survival reward is due.
RewardDue(elapsed) == elapsed > REWARD_PERIOD

\* The body of update after its two early returns.  w is the world the tick
\* starts in (queued hook state h, refs x, enemies, powerUps, the two clocks
\* already advanced to this frame's time); in holds this frame's inputs.
\* When the enemy filter throws, enemiesRef keeps the array it had, and
\* steps 5 to 8 are not reached.
Update(w, cl, in) ==
    LET h0 == IF RewardDue(w.sinceReward) THEN AddCoin(w.h) ELSE w.h
        x1 == MovePlayer(w.x, cl, in.left, in.right, in.drift * U)
        x2 == GravityPull(x1, w.enemies, 1, in.tf)
        due == SpawnDue(w.sinceSpawn, cl)
        sp == IF due THEN Spawn(w.enemies, w.powerUps, cl, in.coin, in.slots)
              ELSE [spawnedX |-> <<>>, enemies |-> w.enemies,
                    powerUps |-> w.powerUps, attempts |-> <<>>, kinds |-> <<>>,
                    rands |-> <<>>]
        a0 == [keep |-> <<>>, h |-> h0, picked |-> 0, passed |-> 0,
               crashes |-> 0, absorbed |-> 0, touched |-> {}, gone |-> {},
               lost |-> 0, fault |-> in.fault, thrown |-> FALSE, all |-> <<>>]
        a1 == UpdatePowerUps(a0, sp.powerUps, 1, x2)
        a2 == UpdateEnemies([a1 EXCEPT !.keep = <<>>], sp.enemies, 1, x2, cl)
    IN  [ h |-> IF a2.thrown THEN a2.h ELSE SetDifficulty(Decay(a2.h, cl), cl),
          x |-> x2,
          enemies |-> IF a2.thrown THEN a2.all ELSE a2.keep,
          thrown |-> a2.thrown,
          powerUps |-> a1.keep,
          sinceSpawn |-> IF due THEN 0 ELSE w.sinceSpawn,
          sinceReward |-> IF RewardDue(w.sinceReward) THEN 0 ELSE w.sinceReward,
          spawned |-> Len(sp.spawnedX),
          attempts |-> sp.attempts,
          spawnedX |-> sp.spawnedX,
          kinds |-> sp.kinds,
          rands |-> sp.rands,
          picked |-> a1.picked, passed |-> a2.passed,
          crashes |-> a2.crashes, absorbed |-> a2.absorbed,
          touched |-> a2.touched, gone |-> a2.gone, lost |-> a1.lost ]

----------------------------------------------------------------------------
(* Inputs of one frame                                                     *)

NoSlot == [d1 |-> 0, d2 |-> 0, rand |-> 0, up |-> FALSE, base |-> 30, pt |-> 0]

\* The draws of slot i at difficulty d.  A draw the slot's kind never reads
\* is held at one value.
SlotInputs(i, d, xs, rands) ==
    { in \in [d1 : xs, d2 : xs, rand : rands, up : BOOLEAN,
              base : PullBases, pt : 0..2] :
        LET kind == SpawnKind(i, in.rand, d)
        IN  /\ i = 0 => in.d2 = in.d1
            /\ kind \notin {"GRAVITY", "BARRIER"} => ~in.up
            /\ kind # "GRAVITY" => in.base = 30
            /\ kind # "POWERUP" => in.pt = 0 }

NoEvent ==
    [op |-> "none", spawned |-> 0, picked |-> 0, passed |-> 0, crashes |-> 0,
     absorbed |-> 0, touched |-> {}, gone |-> {}, lost |-> 0, dt |-> 0,
     kinds |-> <<>>, rands |-> <<>>, spawnedX |-> <<>>, attempts |-> <<>>,
     left |-> FALSE, right |-> FALSE, item |-> "", ret |-> "none"]

Event(op) == [NoEvent EXCEPT !.op = op]

----------------------------------------------------------------------------
(* React: commit and passive effects                                       *)

\* Nothing queued and no effect waiting: the screen shows st.
Settled ==
    /\ q = st
    /\ ~LoopEffectDue(effDeps, st, updateCl)
    /\ ~KeyEffectDue(keyCl, st)

\* The two effects whose deps changed run with the committed render.
RunEffects(h, cl) ==
    /\ frames' = IF LoopEffectDue(effDeps, h, cl) THEN LoopEffect(frames, h, cl)
                 ELSE frames
    /\ effDeps' = [gameState |-> h.gameState, cl |-> cl]
    /\ keyCl' = IF KeyEffectDue(keyCl, h) THEN KeyCapture(h) ELSE keyCl
    /\ lag' = 0

\* A discrete event (click, key) whose handler left the queued state h:
\* React renders, commits and runs the effects before the event returns.
Flush(h) ==
    /\ st' = h
    /\ q' = h
    /\ updateCl' = Render(h, updateCl)
    /\ RunEffects(h, Render(h, updateCl))

\* Updates queued by a frame callback are rendered and committed later.
Commit ==
    /\ q # st
    /\ ~LoopEffectDue(effDeps, st, updateCl)
    /\ ~KeyEffectDue(keyCl, st)
    /\ st' = q
    /\ updateCl' = Render(q, updateCl)
    /\ lag' = IF LoopEffectDue(effDeps, q, Render(q, updateCl)) \/ KeyEffectDue(keyCl, q)
              THEN lag ELSE 0
    /\ ev' = Event("commit")
    /\ UNCHANGED <<q, keyCl, effDeps, frames, playerX, enemies, powerUps,
                   sinceSpawn, sinceReward, ticks, steers>>

\* ... and the passive effects of that commit later still.
Effects ==
    /\ LoopEffectDue(effDeps, st, updateCl) \/ KeyEffectDue(keyCl, st)
    /\ RunEffects(st, updateCl)
    /\ ev' = Event("effects")
    /\ UNCHANGED <<st, q, updateCl, playerX, enemies, powerUps, sinceSpawn,
                   sinceReward, ticks, steers>>

----------------------------------------------------------------------------
(* Handlers                                                                *)

\* startGame without the two lines that empty the collections.
StartGameKeepsTraffic(level) ==
    /\ Flush([q EXCEPT !.gameState = "PLAYING", !.score = 0,
                       !.difficulty = StartDifficulty(level),
                       !.activeShield = 0, !.activeMultiplier = 0,
                       !.activeBoost = 0, !.isSliding = 0])
    /\ playerX' = CenterX
    /\ sinceSpawn' = 0
    /\ sinceReward' = 0
    /\ UNCHANGED <<enemies, powerUps, ticks, steers>>

\* startGame of a render whose difficultyLevel was level.
StartGame(level) ==
    /\ Flush([q EXCEPT !.gameState = "PLAYING", !.score = 0,
                       !.difficulty = StartDifficulty(level),
                       !.activeShield = 0, !.activeMultiplier = 0,
                       !.activeBoost = 0, !.isSliding = 0])
    /\ enemies' = <<>>
    /\ powerUps' = <<>>
    /\ playerX' = CenterX
    /\ sinceSpawn' = 0
    /\ sinceReward' = 0
    /\ UNCHANGED <<ticks, steers>>

\* The Start Engine and Restart buttons: the startGame of the render shown.
StartClick ==
    /\ Settled
    /\ st.gameState \in {"START", "GAMEOVER"}
    /\ StartGame(st.difficultyLevel)
    /\ ev' = Event("startClick")

\* A key handler that starts the game whatever game state it captured.
StartKeyAnywhere ==
    /\ Settled
    /\ StartGame(keyCl.difficultyLevel)
    /\ ev' = Event("startKey")

\* Enter in START, r in GAMEOVER: the handler's own gameState and startGame.
StartKey ==
    /\ Settled
    /\ keyCl.gameState \in {"START", "GAMEOVER"}
    /\ StartGame(keyCl.difficultyLevel)
    /\ ev' = Event("startKey")

\* The two Settings buttons.
OpenSettings ==
    /\ Settled
    /\ st.gameState \in {"START", "GAMEOVER"}
    /\ Flush([q EXCEPT !.gameState = "SETTINGS"])
    /\ ev' = Event("openSettings")
    /\ UNCHANGED <<playerX, enemies, powerUps, sinceSpawn, sinceReward, ticks, steers>>

\* Save & Return
CloseSettings ==
    /\ Settled
    /\ st.gameState = "SETTINGS"
    /\ Flush([q EXCEPT !.gameState = "START"])
    /\ ev' = Event("closeSettings")
    /\ UNCHANGED <<playerX, enemies, powerUps, sinceSpawn, sinceReward, ticks, steers>>

\* The level buttons of the START and SETTINGS screens.
UpdateDifficultyLevel ==
    /\ Settled
    /\ st.gameState \in {"START", "SETTINGS"}
    /\ \E level \in Levels : Flush([q EXCEPT !.difficultyLevel = level])
    /\ ev' = Event("level")
    /\ UNCHANGED <<playerX, enemies, powerUps, sinceSpawn, sinceReward, ticks, steers>>

IsUnlocked(h, item) ==
    IF item.type = "color" THEN item.id \in h.unlockedItems.colors
    ELSE IF item.type = "spoiler" THEN item.id \in h.unlockedItems.spoilers
    ELSE item.id \in h.unlockedItems.tires

\* A purchase that charges the cost twice.
PayTwice(h, cost) == [h EXCEPT !.coins = @ - cost - cost]

\* setCoins(c => c - cost)
Pay(h, cost) == [h EXCEPT !.coins = @ - cost]

Unlock(h, item) ==
    IF item.type = "color" THEN [h EXCEPT !.unlockedItems.colors = @ \cup {item.id}]
    ELSE IF item.type = "spoiler"
    THEN [h EXCEPT !.unlockedItems.spoilers = @ \cup {item.id}]
    ELSE [h EXCEPT !.unlockedItems.tires = @ \cup {item.id}]

\* A buyItem that does not look at the balance.
BuyItemUnchecked(s, h, item) ==
    IF IsUnlocked(s, item) THEN h
    ELSE Unlock(Pay(h, item.cost), item)

\* buyItem, called in a render whose state was s, on the queued state h.
BuyItem(s, h, item) ==
    IF IsUnlocked(s, item) THEN h
    ELSE IF s.coins >= item.cost THEN Unlock(Pay(h, item.cost), item)
    ELSE h

\* The value buyItem returns.
BuyItemReturns(s, item) == IsUnlocked(s, item) \/ s.coins >= item.cost

\* What a click's handler got back: "none" when it selected the item and did
\* not call buyItem.
ClickReturn(s, item) ==
    IF IsUnlocked(s, item) THEN "none"
    ELSE IF BuyItemReturns(s, item) THEN "true" ELSE "false"

\* The items the model clicks: one the saved coins can buy, one they cannot,
\* and the tire the player starts with.
ClickedItems ==
    { item \in Unlockables : item.id \in {"#3b82f6", "SPORT", "STANDARD"} }

\* A click on an item of the SETTINGS screen: select it if the render shows
\* it unlocked, buy it otherwise.  Colour and spoiler selections only change
\* what is drawn.
Click(items) ==
    /\ Settled
    /\ st.gameState = "SETTINGS"
    /\ \E item \in items :
          /\ Flush(IF IsUnlocked(st, item)
                   THEN IF item.type = "tire" THEN [q EXCEPT !.tireType = item.id]
                        ELSE q
                   ELSE BuyItem(st, q, item))
          /\ ev' = [Event("item") EXCEPT !.item = item.id,
                                         !.ret = ClickReturn(st, item)]
    /\ UNCHANGED <<playerX, enemies, powerUps, sinceSpawn, sinceReward, ticks, steers>>

\* A click on one of the items the main model clicks.
ClickItem == Click(ClickedItems)

\* The three tires of the SETTINGS screen.
Tires == { item \in Unlockables : item.type = "tire" }

\* A click on a tire.
ClickTire == Click(Tires)

----------------------------------------------------------------------------
(* The frame callback                                                      *)

\* update, run as the oldest pending frame callback.  dts holds the times
\* that may have passed since the last frame; lefts and rights are the values
\* the two steer intents may have during this frame; xs and rands are the
\* values Math.random() may return for a position and for a kind.
Frame(dts, lefts, rights, xs, rands, faults) ==
    /\ frames # <<>>
    /\ ticks < MaxTicks
    /\ ~Settled => lag < MaxLag
    /\ ticks' = ticks + 1
    /\ lag' = IF Settled THEN 0 ELSE lag + 1
    /\ LET cl == Head(frames).cl
       IN  IF cl.gameState # "PLAYING"
           THEN /\ frames' = Tail(frames)
                /\ ev' = Event("tick")
                /\ UNCHANGED <<st, q, updateCl, keyCl, effDeps, playerX, enemies,
                               powerUps, sinceSpawn, sinceReward, steers>>
           ELSE \E dt \in dts, left \in lefts, right \in rights, fault \in faults :
                LET due == SpawnDue(sinceSpawn + dt, cl)
                    two == due /\ cl.difficulty > 150
                IN     \E coin \in (IF two THEN BOOLEAN ELSE {FALSE}),
                          tf \in (IF \E i \in 1..Len(enemies) : PullsPlayer(enemies[i])
                                  THEN TimeFactors ELSE {8}),
                          drift \in (IF cl.isSliding > 0 THEN Drifts ELSE {0}) :
                       \E s1 \in (IF due THEN SlotInputs(0, cl.difficulty, xs, rands)
                                  ELSE {NoSlot}),
                          s2 \in (IF coin THEN SlotInputs(1, cl.difficulty, xs, rands)
                                  ELSE {NoSlot}) :
                          \E r \in {Update([h |-> q, x |-> playerX, enemies |-> enemies,
                                           powerUps |-> powerUps,
                                           sinceSpawn |-> sinceSpawn + dt,
                                           sinceReward |-> sinceReward + dt],
                                          cl,
                                          [left |-> left, right |-> right,
                                           drift |-> drift, tf |-> tf, coin |-> coin,
                                           slots |-> <<s1, s2>>, fault |-> fault])} :
                              /\ q' = r.h
                              /\ playerX' = r.x
                              /\ enemies' = r.enemies
                              /\ powerUps' = r.powerUps
                              /\ sinceSpawn' = r.sinceSpawn
                              /\ sinceReward' = r.sinceReward
                              /\ frames' = IF r.thrown THEN Tail(frames)
                                           ELSE RequestFrame(Tail(frames), cl)
                              /\ steers' = IF left \/ right
                                           THEN Min(steers + 1, MaxSteerTicks)
                                           ELSE steers
                              /\ ev' = [op |-> "tick", spawned |-> r.spawned,
                                        picked |-> r.picked, passed |-> r.passed,
                                        crashes |-> r.crashes, absorbed |-> r.absorbed,
                                        touched |-> r.touched, gone |-> r.gone,
                                        lost |-> r.lost, dt |-> dt,
                                        kinds |-> r.kinds,
                                        rands |-> r.rands,
                                        spawnedX |-> r.spawnedX,
                                        attempts |-> r.attempts,
                                        left |-> left, right |-> right,
                                        item |-> "", ret |-> "none"]
                              /\ UNCHANGED <<st, updateCl, keyCl, effDeps>>

\* A frame of ordinary play: at most MaxSteerTicks frames see a steer intent.
Tick ==
    LET intents == IF steers < MaxSteerTicks THEN BOOLEAN ELSE {FALSE}
    IN  Frame(FrameTimes, intents, intents, SpawnXs, RandSet, {FALSE})

\* A frame while the player works the steering keys, never steering back
\* towards the centre: a lone car or gravity field is all that spawns.
Drive ==
    Frame(FrameTimes, IF playerX <= CenterX THEN BOOLEAN ELSE {FALSE},
          IF playerX >= CenterX THEN BOOLEAN ELSE {FALSE}, DriveXs, DriveRands,
          {FALSE})

\* A frame with the hands off the keys: coins and cars come down the
\* player's own lane.
Cruise == Frame(FrameTimes, {FALSE}, {FALSE}, CruiseXs, CruiseRands, {FALSE})

\* A frame of a slow display with the hands off the keys: cars come down the
\* left edge of the road, one or two at a time.
Rally == Frame(RallyTimes, {FALSE}, {FALSE}, RallyXs, RallyRands, {FALSE})

\* A frame with the hands off the keys in a session whose second frame comes
\* late (the page stalled): the first spawn is due at once, the next ones at
\* the usual pace.  Gravity fields and cars come down the left edge.
Coast ==
    Frame(IF ticks = 1 THEN StallTimes ELSE FrameTimes, {FALSE}, {FALSE},
          CoastXs, CoastRands, {FALSE})

\* A frame with the hands off the keys in a session whose first two frames
\* may come late (the tab was in the background): a spawn is then due while
\* update still holds the start difficulty, or right after the first tick's
\* difficulty is rendered.  Those spawns draw rand from every sub-range of the
\* kind chain; later spawns are cars.
Thaw ==
    Frame(IF ticks < 2 THEN ThawTimes ELSE FrameTimes, {FALSE}, {FALSE}, RallyXs,
          IF ticks < 2 THEN ThawRands ELSE RallyRands, {FALSE})

\* A frame of a slow display with the hands off the keys, in a browser whose
\* storage may refuse a write (quota exceeded, storage disabled): cars come
\* down the left edge until the first points are scored, then down the
\* player's lane.  No coin is spawned and the run is shorter than the
\* survival reward's period, so gameOver's write is the only one.
Jam ==
    Frame(RallyTimes, {FALSE}, {FALSE}, IF q.score > 0 THEN JamXs ELSE RallyXs,
          RallyRands, BOOLEAN)

----------------------------------------------------------------------------
(* Specifications                                                          *)

\* After the mount effects and their re-render, with the values h the mount
\* effect read from localStorage.
Mounted(h) ==
    /\ st = h
    /\ q = h
    /\ updateCl = Render(h, Capture(HookInit))
    /\ keyCl = KeyCapture(HookInit)
    /\ effDeps = [gameState |-> h.gameState, cl |-> Render(h, Capture(HookInit))]
    /\ frames = <<>>
    /\ playerX = CenterX
    /\ enemies = <<>>
    /\ powerUps = <<>>
    /\ sinceSpawn = 0
    /\ sinceReward = 0
    /\ ticks = 0
    /\ steers = 0
    /\ lag = 0
    /\ ev = Event("init")

\* A first launch: localStorage holds nothing.
Init == Mounted(HookInit)

Next ==
    \/ Tick
    \/ Commit
    \/ Effects
    \/ StartClick
    \/ StartKey
    \/ OpenSettings
    \/ CloseSettings
    \/ UpdateDifficultyLevel
    \/ ClickItem

Spec == Init /\ [][Next]_vars

\* The same launch after a click on HARD, steered freely.
InitDrive == Mounted([HookInit EXCEPT !.difficultyLevel = "HARD"])

NextDrive ==
    \/ Drive
    \/ Commit
    \/ Effects
    \/ StartClick

SpecDrive == InitDrive /\ [][NextDrive]_vars

\* The same launch after a click on HARD, on a slow display: the spawn
\* interval is a few frames, so many obstacles pass in one run.
NextRally ==
    \/ Rally
    \/ Commit
    \/ Effects
    \/ StartClick

SpecRally == InitDrive /\ [][NextRally]_vars

\* The same launch after a click on HARD, with one stalled frame.
NextCoast ==
    \/ Coast
    \/ Commit
    \/ Effects
    \/ StartClick

SpecCoast == InitDrive /\ [][NextCoast]_vars

\* Play at any level in a tab that wakes up late.
NextThaw ==
    \/ Thaw
    \/ Commit
    \/ Effects
    \/ StartClick
    \/ UpdateDifficultyLevel

SpecThaw == Init /\ [][NextThaw]_vars

\* Play at HARD on a slow display with a storage that may refuse writes.
NextJam ==
    \/ Jam
    \/ Commit
    \/ Effects
    \/ StartClick

SpecJam == InitDrive /\ [][NextJam]_vars

\* A later launch: the mount effect found SavedCoins coins and a high score
\* of SavedHighScore in localStorage.
InitSaved == Mounted([HookInit EXCEPT !.coins = SavedCoins,
                                      !.highScore = SavedHighScore])

NextShop ==
    \/ Cruise
    \/ Commit
    \/ Effects
    \/ StartClick
    \/ OpenSettings
    \/ CloseSettings
    \/ UpdateDifficultyLevel
    \/ ClickItem

SpecShop == InitSaved /\ [][NextShop]_vars

\* A launch of a player who bought the three tires in earlier sessions and
\* works both steering keys: outwards from the centre, and back inwards
\* within one step of the left edge.
InitGarage ==
    Mounted([HookInit EXCEPT !.unlockedItems.tires = {"STANDARD", "GRIP", "DRIFT"}])

Steer ==
    Frame(FrameTimes, IF playerX <= CenterX THEN BOOLEAN ELSE {FALSE},
          IF playerX >= CenterX \/ playerX <= CurrentSpeed(q) THEN BOOLEAN
          ELSE {FALSE},
          DriveXs, DriveRands, {FALSE})

NextGarage ==
    \/ Steer
    \/ Commit
    \/ Effects
    \/ StartClick
    \/ OpenSettings
    \/ CloseSettings
    \/ ClickTire

SpecGarage == InitGarage /\ [][NextGarage]_vars

\* The moving barrier on its own.  The barrier is the obstacle the barrier
\* branch of the spawn step pushes: x = Math.random() * 360, taken here
\* near the two ends of the range, mid-road, and either side of 340 where the
\* barrier's right edge meets the track's; direction = +1 or -1; vx = 2 *
\* difficulty for the difficulties above 1.2 that update sets (EASY from
\* score 100, NORMAL, HARD).  Each step is one pass of the enemy filter over
\* it, with the player out of its way.
BounceXs == {8, 170, 339, 341, 359}
BounceDifficulties == {155, 250, 350}

InitBounce ==
    /\ Mounted(HookInit)!1
    /\ Mounted(HookInit)!2
    /\ Mounted(HookInit)!3
    /\ Mounted(HookInit)!4
    /\ Mounted(HookInit)!5
    /\ Mounted(HookInit)!6
    /\ playerX = CenterX
    /\ \E x \in BounceXs, d \in BounceDifficulties, up \in BOOLEAN :
          enemies = <<SpawnEntity("BARRIER", x * U, d, [NoSlot EXCEPT !.up = up])>>
    /\ powerUps = <<>>
    /\ sinceSpawn = 0
    /\ sinceReward = 0
    /\ ticks = 0
    /\ steers = 0
    /\ lag = 0
    /\ ev = Event("init")

\* One pass of the filter: move the barrier, drop it past the bottom.
BounceTick ==
    /\ enemies # <<>>
    /\ ticks < MaxTicks
    /\ LET e == MoveEnemy(enemies[1], playerX, updateCl)
       IN  /\ enemies' = IF e.y > CANVAS_HEIGHT * U THEN <<>> ELSE <<e>>
           /\ ev' = Event(IF e.direction # enemies[1].direction THEN "flip"
                          ELSE "move")
    /\ ticks' = ticks + 1
    /\ UNCHANGED <<st, q, updateCl, keyCl, effDeps, frames, playerX, powerUps,
                   sinceSpawn, sinceReward, steers, lag>>

NextBounce == BounceTick

SpecBounce == InitBounce /\ [][NextBounce]_vars

----------------------------------------------------------------------------
(* Properties                                                              *)

\* A step that ran a frame callback.
FrameStep == ticks' = ticks + 1

\* A step that began a run.
StartStep == ev'.op \in {"startClick", "startKey"}

FatalKinds == {"CAR", "CHASER", "BARRIER"}

\* C1: the player's horizontal position is always within [0, 360]: steering,
\* the slide drift and gravity pulls never take the car off the canvas.
C1_PlayerWithinRoad == playerX >= 0 /\ playerX <= MaxX

\* A frame left the car on the left edge: from the centre the edge is not a
\* whole number of steer steps away, so the last step was cut short.
C1_ClampEngaged == ev.op = "tick" /\ playerX = 0 /\ q.gameState = "PLAYING"

\* C2: a frame callback that runs while the game state on screen is not
\* PLAYING changes no game state: not the queued hook state, not the player,
\* the obstacles, the collectibles or the two clocks.
C2_NoTickOutsidePlaying ==
    [][(FrameStep /\ st.gameState # "PLAYING")
         => UNCHANGED <<q, playerX, enemies, powerUps, sinceSpawn, sinceReward>>]_vars

\* C3: a frame in which the shield timer is 0 and the player's rectangle
\* overlaps a standard car, a chaser or a moving barrier leaves the game state
\* GAMEOVER.
C3_FatalOverlapEndsRun ==
    [][(FrameStep /\ q.activeShield = 0 /\ ev'.touched \cap FatalKinds # {})
         => q'.gameState = "GAMEOVER"]_vars

\* A frame just ended a run on a car, with no shield.
C3_CrashedUnshielded ==
    /\ ev.op = "tick"
    /\ "CAR" \in ev.touched
    /\ ev.crashes > 0
    /\ q.activeShield = 0
    /\ q.gameState = "GAMEOVER"

\* C4: when a frame ends a run, the stored high score is at least the run's
\* final score, the points awarded by that very frame included.  (Stated for
\* a frame whose closure is the latest render's.)
C4_HighScoreCoversFinalScore ==
    [][(FrameStep /\ Settled /\ st.gameState = "PLAYING" /\ ev'.crashes > 0)
         => q'.highScore >= q'.score]_vars

\* C7: the four countdown timers are never negative.
C7_TimersNonNegative ==
    \A h \in {st, q} :
        /\ h.activeShield >= 0
        /\ h.activeMultiplier >= 0
        /\ h.activeBoost >= 0
        /\ h.isSliding >= 0

\* A frame of a run has gone through the decay step.
C7_DecayRan == ev.op = "tick" /\ q.gameState = "PLAYING" /\ Len(enemies) > 0

\* C8: within a run the score never decreases, is never negative, and changes
\* only in a frame in which obstacles scrolled past, by the award (doubled
\* under a multiplier) for each.
C8_ScoreOnlyGrowsByAwards ==
    [][~StartStep =>
         /\ q'.score >= q.score
         /\ q'.score >= 0
         /\ q'.score # q.score =>
              /\ FrameStep
              /\ ev'.passed > 0
              /\ q'.score - q.score \in {ev'.passed * SCORE_AWARD,
                                         ev'.passed * SCORE_AWARD * 2}]_vars

\* A frame just awarded points.
C8_Awarded == ev.op = "tick" /\ ev.passed > 0 /\ q.score > 0

C10_DifficultyNeverDrops ==
    [][~StartStep => q'.difficulty >= q.difficulty]_vars

\* C11: the difficulty startGame sets for the selected level is the value the
\* per-tick formula yields for that level at score 0, so the first frame of a
\* run leaves the difficulty as it was.
C11_StartAtBase ==
    [][ev'.op = "startClick"
         => q'.difficulty = TickDifficulty(q'.difficultyLevel, 0)]_vars

\* C12: after a frame of a run, the difficulty is base(level) +
\* floor(score / 100) * 0.35 at the score as that frame left it.  (Stated for
\* a frame whose closure is the latest render's.)
C12_DifficultyTracksScore ==
    [][(FrameStep /\ Settled /\ st.gameState = "PLAYING")
         => q'.difficulty = TickDifficulty(q'.difficultyLevel, q'.score)]_vars

\* C13: startGame, called from START or GAMEOVER, leaves the game state
\* PLAYING, the score 0, both collections empty, the four timers 0 and the
\* player at the centre of the track, and does not touch the coins, the high
\* score, the unlocked items or the selected level.
C13_StartGameResets ==
    [][StartStep =>
         /\ st.gameState \in {"START", "GAMEOVER"}
         /\ q'.gameState = "PLAYING"
         /\ q'.score = 0
         /\ enemies' = <<>>
         /\ powerUps' = <<>>
         /\ q'.activeShield = 0
         /\ q'.activeMultiplier = 0
         /\ q'.activeBoost = 0
         /\ q'.isSliding = 0
         /\ playerX' = CenterX
         /\ q'.coins = q.coins
         /\ q'.highScore = q.highScore
         /\ q'.unlockedItems = q.unlockedItems
         /\ q'.difficultyLevel = q.difficultyLevel]_vars

\* A run has just been restarted after an earlier one, in which a coin was
\* picked up, ended in a crash.
C13_Restarted ==
    /\ ev.op \in {"startClick", "startKey"}
    /\ ticks > 0
    /\ q.coins > 0
    /\ q.gameState = "PLAYING"
    /\ enemies = <<>>

Transitions ==
    { <<"START", "PLAYING">>, <<"PLAYING", "GAMEOVER">>, <<"GAMEOVER", "PLAYING">>,
      <<"START", "SETTINGS">>, <<"GAMEOVER", "SETTINGS">>, <<"SETTINGS", "START">> }

\* C14: the game state, queued or on screen, only ever changes along START ->
\* PLAYING, PLAYING -> GAMEOVER, GAMEOVER -> PLAYING, START -> SETTINGS,
\* GAMEOVER -> SETTINGS and SETTINGS -> START; PLAYING is left only by a frame
\* with a fatal collision; a start key acts only while the screen shows START
\* or GAMEOVER, which is the only time the subscribed handler holds one of
\* these two states.
C14_OnlyListedTransitions ==
    [][/\ q'.gameState # q.gameState => <<q.gameState, q'.gameState>> \in Transitions
       /\ st'.gameState # st.gameState => <<st.gameState, st'.gameState>> \in Transitions
       /\ (q.gameState = "PLAYING" /\ q'.gameState # "PLAYING")
              => (FrameStep /\ ev'.crashes > 0)
       /\ ev'.op = "startKey" => st.gameState \in {"START", "GAMEOVER"}
       /\ keyCl.gameState \in {"START", "GAMEOVER"}
              => keyCl.gameState = st.gameState]_vars

\* The r key has just restarted the game from GAMEOVER.
C14_RestartedByKey ==
    ev.op = "startKey" /\ ticks > 0 /\ q.gameState = "PLAYING" /\ st.gameState = "PLAYING"

\* The obstacles that are below the bottom edge once update's first line of
\* the filter has advanced them, and those of them that score.
PastBottom(cl) ==
    { i \in 1..Len(enemies) : Fall(enemies[i], cl).y > CANVAS_HEIGHT * U }

ScoringPast(cl) ==
    { i \in PastBottom(cl) : enemies[i].type \notin {"OIL", "GRAVITY"} }

\* C15: a frame of a run removes every obstacle whose y exceeds 600 after its
\* vertical advance, and raises the score by exactly 10 (20 while the
\* multiplier timer is positive) for each of them that is not an oil slick or
\* a gravity field, and by nothing else.
C15_ScrollPastAward ==
    [][(FrameStep /\ Head(frames).cl.gameState = "PLAYING") =>
         LET cl == Head(frames).cl
         IN  /\ \A k \in 1..Len(enemies') : enemies'[k].y <= CANVAS_HEIGHT * U
             /\ Len(enemies') <= Len(enemies) + ev'.spawned
                                   - Cardinality(PastBottom(cl))
             /\ q'.score - q.score =
                  Cardinality(ScoringPast(cl)) * SCORE_AWARD
                    * (IF q.activeMultiplier > 0 THEN 2 ELSE 1)]_vars

\* A frame has just removed a gravity field that scrolled past, for no
\* points, in a run in which a car had scored before.
C15_FieldGone ==
    /\ ev.op = "tick"
    /\ ev.gone = {"GRAVITY"}
    /\ ev.passed = 0
    /\ q.score = SCORE_AWARD
    /\ q.gameState = "PLAYING"

\* The platforms the player overlaps in the frame about to run, after their
\* move, with the player at x.
TouchedPlatforms(x, cl) ==
    { e \in { MoveEnemy(enemies[i], x, cl) : i \in 1..Len(enemies) } :
        e.type = "PLATFORM" /\ Overlap(x, e) }

\* C16: a flicker platform the player overlaps while its active flag is true
\* has no fatal effect: a frame of a run in which the player overlaps nothing
\* but platforms whose active flag is true leaves the run PLAYING.
C16_ActivePlatformHarmless ==
    [][(/\ FrameStep
        /\ Head(frames).cl.gameState = "PLAYING"
        /\ q.gameState = "PLAYING"
        /\ ev'.touched = {"PLATFORM"}
        /\ \A e \in TouchedPlatforms(playerX', Head(frames).cl) : e.active)
         => q'.gameState = "PLAYING"]_vars

\* s is t with some entries left out, the order of the others kept.
RECURSIVE SubSeqOf(_, _)
SubSeqOf(s, t) ==
    IF s = <<>> THEN TRUE
    ELSE IF t = <<>> THEN FALSE
    ELSE IF Head(s) = Head(t) THEN SubSeqOf(Tail(s), Tail(t))
    ELSE SubSeqOf(s, Tail(t))

\* Obstacle e was pushed by the frame that just ran: it has made one advance
\* from the spawn line.
FreshEnemy(e, cl) == e.y = Fall([e EXCEPT !.y = -(CAR_HEIGHT * U)], cl).y

\* Collectible p was pushed by the frame that just ran.
FreshPowerUp(p) == p.y = p.speed - CAR_HEIGHT * U

\* C19: an entity removed from its collection is never put back and never
\* resolved again, a collectible that passes the bottom unpicked is removed
\* with coins and timers untouched, and the collections share no entity.
\* Per step: after a frame of a run each collection is its previous content,
\* moved once, with the removed entries left out and nothing put back, followed
\* by the entities that frame spawned; the entries left out are exactly the
\* obstacles past the bottom or absorbed and the collectibles picked up or
\* past the bottom, each counted once; no kept collectible is past the bottom
\* or on the player; a frame that only loses collectibles leaves coins alone
\* and the timers to the decay step.  Any other step leaves both collections
\* as they are, or empties both when a run starts.  No kind of entity is held
\* by both collections.
C19_RemovedStayRemoved ==
    [][/\ IF FrameStep /\ Head(frames).cl.gameState = "PLAYING"
          THEN LET cl == Head(frames).cl
                   movedE == [i \in 1..Len(enemies) |->
                                 MoveEnemy(enemies[i], playerX', cl)]
                   movedP == [i \in 1..Len(powerUps) |->
                                 [powerUps[i] EXCEPT !.y = @ + powerUps[i].speed]]
                   n == Len(enemies) - Cardinality(PastBottom(cl)) - ev'.absorbed
                   m == Len(powerUps) - ev'.picked - ev'.lost
               IN  /\ n \in 0..Len(enemies')
                   /\ m \in 0..Len(powerUps')
                   /\ SubSeqOf(SubSeq(enemies', 1, n), movedE)
                   /\ SubSeqOf(SubSeq(powerUps', 1, m), movedP)
                   /\ \A k \in (n + 1)..Len(enemies') : FreshEnemy(enemies'[k], cl)
                   /\ \A k \in (m + 1)..Len(powerUps') : FreshPowerUp(powerUps'[k])
                   /\ (Len(enemies') - n) + (Len(powerUps') - m) = ev'.spawned
                   /\ \A k \in 1..Len(enemies') : enemies'[k].y <= CANVAS_HEIGHT * U
                   /\ \A k \in 1..Len(powerUps') :
                         /\ powerUps'[k].y <= CANVAS_HEIGHT * U
                         /\ ~Overlap(playerX', powerUps'[k])
                   /\ (ev'.lost > 0 /\ ev'.picked = 0 /\ sinceReward' # 0)
                        => /\ q'.coins = q.coins
                           /\ q'.activeShield = Decay(q, cl).activeShield
                           /\ q'.activeMultiplier = Decay(q, cl).activeMultiplier
                           /\ q'.activeBoost = Decay(q, cl).activeBoost
                           /\ q'.isSliding = Decay(q, cl).isSliding
          ELSE \/ enemies' = enemies /\ powerUps' = powerUps
               \/ StartStep /\ enemies' = <<>> /\ powerUps' = <<>>
       /\ { enemies'[k].type : k \in 1..Len(enemies') }
            \cap { powerUps'[k].type : k \in 1..Len(powerUps') } = {}]_vars

\* A frame of a run has just dropped a coin that fell past the bottom
\* unpicked, while other entities stay on the track.
C19_CoinLost ==
    /\ ev.op = "tick"
    /\ ev.lost > 0
    /\ ev.picked = 0
    /\ q.gameState = "PLAYING"
    /\ Len(enemies) + Len(powerUps) > 0

\* C20: a write the storage refuses does not interrupt the frame: a frame of
\* a run always reaches its last steps, the difficulty update and the request
\* for the next frame.
C20_FrameRunsToEnd ==
    [][(FrameStep /\ Head(frames).cl.gameState = "PLAYING")
         => LET cl == Head(frames).cl
            IN  /\ q'.difficulty = TickDifficulty(cl.difficultyLevel, cl.score)
                /\ frames' = RequestFrame(Tail(frames), cl)]_vars

\* The values of Math.random() the kind chain can tell apart: its thresholds
\* are whole hundredths, so each sub-range of [0, 1) holds one of these.
Draws == 0..99

\* The type of the entity slot i creates for the draw rand at difficulty d,
\* pt choosing among the power-up types.
SpawnedType(i, rand, pt, d) ==
    SpawnEntity(SpawnKind(i, rand, d), CenterX, d,
                [NoSlot EXCEPT !.rand = rand, !.pt = pt]).type

AllKinds ==
    {"COIN", "SHIELD", "BOOST", "MULTIPLIER", "BARRIER", "OIL", "LASER",
     "GRAVITY", "PLATFORM", "CHASER", "CAR"}

\* C21: while update runs at a difficulty above 1.6, every kind is produced
\* for the first spawn slot by some value of the draw.
C21_EveryKindHasARange ==
    (updateCl.gameState = "PLAYING" /\ updateCl.difficulty > 160)
        => \A k \in AllKinds :
              \E rand \in Draws, pt \in 0..2 :
                 SpawnedType(0, rand, pt, updateCl.difficulty) = k

\* The difficulty a gated kind needs to exceed, in hundredths.
Gate(kind) ==
    CASE kind = "BARRIER" -> 120
      [] kind = "OIL" -> 110
      [] kind = "LASER" -> 130
      [] kind = "GRAVITY" -> 140
      [] kind = "PLATFORM" -> 150
      [] kind = "CHASER" -> 160
      [] OTHER -> 0

\* C22: no spawn creates a gated kind at or below its threshold, and coins and
\* standard cars are spawned at every difficulty.  Per frame of a run: each
\* entity spawned is of a kind whose gate lies below the difficulty update
\* holds, the gated kinds are found only among the obstacles, and whatever the
\* difficulty a draw below 0.4 gives a coin and a draw of 0.7 or more gives a
\* standard car.
C22_GatedKindsAboveThreshold ==
    [][(FrameStep /\ Head(frames).cl.gameState = "PLAYING")
         => LET d == Head(frames).cl.difficulty
            IN  /\ \A i \in 1..Len(ev'.kinds) :
                      /\ d > Gate(ev'.kinds[i])
                      /\ ev'.rands[i] < 40 => ev'.kinds[i] = "COIN"
                      /\ ev'.rands[i] >= 70 => ev'.kinds[i] = "CAR"
                /\ \A k \in 1..Len(enemies') :
                      FreshEnemy(enemies'[k], Head(frames).cl)
                          => d > Gate(enemies'[k].type)]_vars

\* A frame at difficulty 1.5 has just drawn a value of the flicker platform's
\* sub-range and, the platform's gate being closed, spawned a standard car.
C22_GateClosed ==
    /\ ev.op = "tick"
    /\ Len(ev.kinds) > 0
    /\ ev.rands[1] = 55
    /\ ev.kinds[1] = "CAR"
    /\ st.difficultyLevel = "HARD"
    /\ st.difficulty = 150

\* The power-ups among the entities the last frame spawned.
SpawnedPowerUps(kinds) ==
    { i \in 1..Len(kinds) : kinds[i] \in {"SHIELD", "BOOST", "MULTIPLIER"} }

\* C23: in a frame that spawns two entities the second slot never produces a
\* SHIELD, BOOST or MULTIPLIER, and no frame spawns more than one power-up.
C23_PowerUpOnlyFirstSlot ==
    [][(FrameStep /\ Head(frames).cl.gameState = "PLAYING")
         => /\ SpawnedPowerUps(ev'.kinds) \subseteq {1}
            /\ \A k \in 1..Len(powerUps') :
                  (FreshPowerUp(powerUps'[k]) /\ powerUps'[k].type # "COIN")
                      => /\ Len(ev'.kinds) > 0
                         /\ ev'.kinds[1] = powerUps'[k].type
                         /\ \A j \in 1..Len(powerUps') :
                               (FreshPowerUp(powerUps'[j]) /\ j # k)
                                   => powerUps'[j].type = "COIN"]_vars

\* A frame has just spawned two entities, the second on a draw of the
\* power-up's sub-range [0, 0.25).
C23_SecondSlotDrewLow ==
    /\ ev.op = "tick"
    /\ ev.spawned = 2
    /\ Len(ev.kinds) = 2
    /\ ev.rands[2] < 25
    /\ ev.kinds[2] = "COIN"

\* The time since the last spawn, as the frame about to run measures it, has
\* reached the spawn interval 1200 / difficulty (halved while update holds a
\* positive boost timer).
IntervalReached(elapsed, cl) ==
    elapsed * cl.difficulty * 2
        >= ENEMY_SPAWN_RATE * 100 * (IF cl.activeBoost > 0 THEN 1 ELSE 2)

\* C24: a frame of a run whose time since the last spawn reaches the spawn
\* interval spawns exactly 1 or 2 entities, 2 only at a difficulty above 1.5,
\* and resets the spawn clock to the frame's time.
C24_SpawnWhenIntervalReached ==
    [][(/\ FrameStep
        /\ Head(frames).cl.gameState = "PLAYING"
        /\ IntervalReached(sinceSpawn + ev'.dt, Head(frames).cl))
         => /\ ev'.spawned \in {1, 2}
            /\ ev'.spawned = 2 => Head(frames).cl.difficulty > 150
            /\ Len(ev'.kinds) = ev'.spawned
            /\ sinceSpawn' = 0]_vars

\* C25: a frame of a run whose time since the last spawn has not reached the
\* spawn interval spawns nothing and leaves the spawn clock where it was:
\* neither collection gains an element, none holds a fresh entity, and the
\* time since the last spawn grows by the frame's time.
C25_NoSpawnBeforeInterval ==
    [][(/\ FrameStep
        /\ Head(frames).cl.gameState = "PLAYING"
        /\ ~IntervalReached(sinceSpawn + ev'.dt, Head(frames).cl))
         => /\ ev'.spawned = 0
            /\ ev'.kinds = <<>>
            /\ Len(enemies') <= Len(enemies)
            /\ Len(powerUps') <= Len(powerUps)
            /\ \A k \in 1..Len(enemies') : ~FreshEnemy(enemies'[k], Head(frames).cl)
            /\ \A k \in 1..Len(powerUps') : ~FreshPowerUp(powerUps'[k])
            /\ sinceSpawn' = sinceSpawn + ev'.dt]_vars

\* A frame of a run has just run between two spawns, with an obstacle on the
\* track: it spawned nothing and the spawn clock was not reset.
C25_BetweenSpawns ==
    /\ ev.op = "tick"
    /\ ev.dt > 0
    /\ ev.spawned = 0
    /\ sinceSpawn > ev.dt
    /\ q.gameState = "PLAYING"
    /\ enemies # <<>>

\* C26: the placement loop of a slot makes at most 10 draws; when a frame
\* spawns two entities, their chosen x positions are at least CAR_WIDTH + 20
\* apart or the second slot made all 10 draws, and then the overlapping
\* position is accepted: both entities are spawned and the frame ends as any
\* other, with the next one requested.
C26_PlacementBounded ==
    [][(FrameStep /\ Head(frames).cl.gameState = "PLAYING" /\ ev'.spawned > 0)
         => /\ Len(ev'.attempts) = ev'.spawned
            /\ Len(ev'.spawnedX) = ev'.spawned
            /\ \A i \in 1..Len(ev'.attempts) : ev'.attempts[i] \in 1..PLACE_ATTEMPTS
            /\ ev'.spawned = 2
                 => /\ \/ Abs(ev'.spawnedX[1] - ev'.spawnedX[2]) >= (CAR_WIDTH + 20) * U
                       \/ ev'.attempts[2] = PLACE_ATTEMPTS
                    /\ Len(ev'.kinds) = 2
            /\ frames' = RequestFrame(Tail(frames), Head(frames).cl)]_vars

\* A frame has just spawned two entities less than CAR_WIDTH + 20 apart, the
\* second slot having made all 10 draws.
C26_OverlapAccepted ==
    /\ ev.op = "tick"
    /\ ev.spawned = 2
    /\ ev.attempts[2] = PLACE_ATTEMPTS
    /\ Abs(ev.spawnedX[1] - ev.spawnedX[2]) < (CAR_WIDTH + 20) * U
    /\ Len(enemies) + Len(powerUps) >= 2
    /\ frames # <<>>

\* The collectibles the player overlaps in the frame about to run, after
\* their advance, with the player at x.
PickedUp(x) ==
    { i \in 1..Len(powerUps) :
        Overlap(x, [powerUps[i] EXCEPT !.y = @ + powerUps[i].speed]) }

\* The value a timer has after the frame when a pickup of type t sets it to
\* its duration and the decay step then runs; untouched by pickups otherwise.
TimerAfter(x, cl, t, duration, field) ==
    IF \E i \in PickedUp(x) : powerUps[i].type = t
    THEN Decay([q EXCEPT ![field] = duration], cl)[field]
    ELSE Decay(q, cl)[field]

\* C28: a collectible the player overlaps is removed in that frame and its
\* effect applied exactly once.  Per frame of a run: every overlapped
\* collectible is counted as picked up and none is left on the player; coins
\* grow by exactly the number of overlapped coins (plus the survival reward
\* when it falls due); a timer is set to its duration exactly when a pickup
\* of its own type is overlapped, and is otherwise left to the decay step
\* (no obstacle absorbed and no oil touched in the frame).
C28_PickupAppliedOnce ==
    [][(FrameStep /\ Head(frames).cl.gameState = "PLAYING")
         => LET cl == Head(frames).cl
                hit == PickedUp(playerX')
                coinsHit == { i \in hit : powerUps[i].type = "COIN" }
            IN  /\ ev'.picked = Cardinality(hit)
                /\ \A k \in 1..Len(powerUps') : ~Overlap(playerX', powerUps'[k])
                /\ Len(powerUps') <= Len(powerUps) - Cardinality(hit)
                                        + Len(ev'.kinds)
                /\ q'.coins = q.coins + Cardinality(coinsHit)
                                + (IF RewardDue(sinceReward + ev'.dt) THEN 1 ELSE 0)
                /\ (ev'.absorbed = 0 /\ "OIL" \notin ev'.touched)
                     => /\ q'.activeShield =
                              TimerAfter(playerX', cl, "SHIELD", SHIELD_FRAMES,
                                         "activeShield")
                        /\ q'.activeBoost =
                              TimerAfter(playerX', cl, "BOOST", BOOST_FRAMES,
                                         "activeBoost")
                        /\ q'.activeMultiplier =
                              TimerAfter(playerX', cl, "MULTIPLIER",
                                         MULTIPLIER_FRAMES, "activeMultiplier")
                        /\ q'.isSliding = Decay(q, cl).isSliding]_vars

\* A frame of a run has just picked up a coin: the coin is gone and the
\* balance is one above the saved one.
C28_CoinPicked ==
    /\ ev.op = "tick"
    /\ ev.picked = 1
    /\ q.gameState = "PLAYING"
    /\ q.coins = SavedCoins + 1
    /\ \A k \in 1..Len(powerUps) : ~Overlap(playerX, powerUps[k])

\* The gravity fields the player overlaps in the frame about to run, after
\* their advance, with the player at x.
TouchedFields(x, cl) ==
    { e \in { MoveEnemy(enemies[i], x, cl) : i \in 1..Len(enemies) } :
        e.type = "GRAVITY" /\ Overlap(x, e) }

\* C30: overlapping a gravity field has no collision effect.  Per frame of a
\* run: every gravity field the player overlaps is still in the obstacle
\* collection afterwards; and when gravity fields are all the player overlaps,
\* nothing crashes or is absorbed, the game state stays as it was and the
\* shield timer is left to the decay step.
C30_GravityFieldHarmless ==
    [][(FrameStep /\ Head(frames).cl.gameState = "PLAYING")
         => LET cl == Head(frames).cl
            IN  /\ \A e \in TouchedFields(playerX', cl) :
                      \E k \in 1..Len(enemies') : enemies'[k] = e
                /\ ev'.touched = {"GRAVITY"}
                     => /\ ev'.crashes = 0
                        /\ ev'.absorbed = 0
                        /\ q'.gameState = q.gameState
                        /\ q'.activeShield = Decay(q, cl).activeShield]_vars

\* A frame of a run has just run with the player inside a gravity field: the
\* field is still on the track and the run goes on.
C30_InsideField ==
    /\ ev.op = "tick"
    /\ ev.touched = {"GRAVITY"}
    /\ q.gameState = "PLAYING"
    /\ \E k \in 1..Len(enemies) :
          enemies[k].type = "GRAVITY" /\ Overlap(playerX, enemies[k])

\* The player's steering speed as the claim words it: 7, 9 or 11 px by tire,
\* times 1.5 while boost is active.
SteerSpeed ==
    LET base == CASE q.tireType = "STANDARD" -> 7
                  [] q.tireType = "GRIP" -> 9
                  [] q.tireType = "DRIFT" -> 11
    IN  IF q.activeBoost > 0 THEN (base * U * 3) \div 2 ELSE base * U

\* No gravity field reaches the player's row, so the move is the only thing
\* that shifts the player in the tick.
NoPull == \A i \in 1..Len(enemies) : ~PullsPlayer(enemies[i])

\* C31: in a tick that runs with the slide timer at 0, steer-left alone puts
\* the player at max(0, x - speed), steer-right alone at min(360, x + speed),
\* and both together at min(360, max(0, x - speed) + speed), with speed the
\* tire's 7, 9 or 11 px, times 1.5 under boost.
C31_SteerMovesPlayer ==
    [][(FrameStep /\ Head(frames).cl.gameState = "PLAYING" /\ q.isSliding = 0
          /\ NoPull)
       => /\ (ev'.left /\ ~ev'.right) => playerX' = Max(0, playerX - SteerSpeed)
          /\ (~ev'.left /\ ev'.right) =>
                playerX' = Min(360 * U, playerX + SteerSpeed)
          /\ (ev'.left /\ ev'.right) =>
                playerX' = Min(360 * U, Max(0, playerX - SteerSpeed) + SteerSpeed)]_vars

\* Both keys held with DRIFT tires at the left edge: the player ends one
\* step of 11 px from the edge.
C31_BothAtLeftEdge ==
    /\ ev.op = "tick" /\ ev.left /\ ev.right
    /\ q.tireType = "DRIFT"
    /\ playerX = 11 * U

\* C33: in a tick a chaser moves horizontally towards the player by
\* min(|dx|, 1.5 * difficulty), dx being the player's x minus the chaser's:
\* the distance to the player shrinks by exactly that step, dx never changes
\* sign, and a chaser with dx = 0 keeps its x.  Every chaser held after a
\* frame of a run stands where this move takes a chaser held before the frame
\* or spawned by it.
C33_ChaserClosesIn ==
    [][(FrameStep /\ Head(frames).cl.gameState = "PLAYING")
       => LET cl == Head(frames).cl
          IN  \A k \in 1..Len(enemies') :
                 enemies'[k].type = "CHASER" =>
                   \E x0 \in { enemies[j].x : j \in { i \in 1..Len(enemies) :
                                    /\ enemies[i].type = "CHASER"
                                    /\ Fall(enemies[i], cl).y = enemies'[k].y } }
                             \cup { ev'.spawnedX[j] : j \in { i \in 1..Len(ev'.kinds) :
                                    /\ ev'.kinds[i] = "CHASER"
                                    /\ FreshEnemy(enemies'[k], cl) } } :
                      LET dx == playerX' - x0
                          after == playerX' - enemies'[k].x
                          step == Min(Abs(dx), (3 * cl.difficulty * U) \div 200)
                      IN  /\ Abs(enemies'[k].x - x0) = step
                          /\ Abs(after) = Abs(dx) - step
                          /\ Sign(after) \in {0, Sign(dx)}
                          /\ dx = 0 => enemies'[k].x = x0]_vars

\* A chaser spawned to the left of the player has caught up with the
\* player's x: its last step was the rest of the distance.
C33_ChaserCaughtUp ==
    /\ ev.op = "tick"
    /\ \E k \in 1..Len(enemies) :
          enemies[k].type = "CHASER" /\ enemies[k].x = playerX

C36_OneFramePending == Len(frames) <= 1

\* A second run has been started after a run that ended in a crash: ticks
\* rescheduled themselves, the difficulty commit re-subscribed the loop, game
\* over cancelled it, and the restart requested the one frame pending now.
C36_LoopRestarted ==
    /\ ev.op = "startClick"
    /\ ticks > 0
    /\ st.gameState = "PLAYING"
    /\ Len(frames) = 1
    /\ frames[1].cl = updateCl

\* C37: the game-over resolution is applied exactly once per run: a frame
\* calls gameOver at most once, however many fatal obstacles overlap the
\* player, and no frame calls it again once it has ended the run.
C37_GameOverOnce ==
    [][FrameStep => /\ ev'.crashes <= 1
                    /\ q.gameState = "GAMEOVER" => ev'.crashes = 0]_vars

\* The number of further ticks an entity at its height and speed can stay on
\* the track: it is dropped by the tick that takes it past the bottom edge.
TicksLeft(e) == (CANVAS_HEIGHT * U - e.y) \div e.speed + 1

\* The kinds spawned by the frame that just ran, obstacles or collectibles.
SpawnedOf(collectible) ==
    Cardinality({ i \in 1..Len(ev'.kinds) : IsCollectible(ev'.kinds[i]) = collectible })

\* C38: while the game stays in PLAYING and ticks run, every obstacle and
\* every collectible is eventually removed.  As a countdown: every entity held
\* has a positive speed and at least one tick left before the bottom edge;
\* after a frame of a run every entity that was held before and is still held
\* is lower than it was by its speed or more, so it has fewer ticks left, and an
\* entity with no tick left is not held.
C38_EntitiesFallOut ==
    [][(FrameStep /\ Head(frames).cl.gameState = "PLAYING" /\ q'.gameState = "PLAYING")
       => /\ \A k \in 1..Len(enemies') :
                /\ enemies'[k].speed > 0
                /\ TicksLeft(enemies'[k]) >= 1
                /\ k <= Len(enemies') - SpawnedOf(FALSE) =>
                     \E j \in 1..Len(enemies) :
                        /\ enemies[j].type = enemies'[k].type
                        /\ enemies[j].speed = enemies'[k].speed
                        /\ enemies'[k].y >= enemies[j].y + enemies[j].speed
                        /\ TicksLeft(enemies'[k]) < TicksLeft(enemies[j])
          /\ \A k \in 1..Len(powerUps') :
                /\ powerUps'[k].speed > 0
                /\ TicksLeft(powerUps'[k]) >= 1
                /\ k <= Len(powerUps') - SpawnedOf(TRUE) =>
                     \E j \in 1..Len(powerUps) :
                        /\ powerUps[j].type = powerUps'[k].type
                        /\ powerUps[j].speed = powerUps'[k].speed
                        /\ powerUps'[k].y = powerUps[j].y + powerUps[j].speed
                        /\ TicksLeft(powerUps'[k]) < TicksLeft(powerUps[j])]_vars

\* A frame of a run has dropped the last entities off the bottom edge: the
\* track is empty again while the run goes on.
C38_TrackEmptied ==
    /\ ev.op = "tick"
    /\ q.gameState = "PLAYING"
    /\ ev.passed + ev.lost + Cardinality(ev.gone) > 0
    /\ enemies = <<>>
    /\ powerUps = <<>>

\* C39: a click on an item that is already unlocked leaves coins and the
\* unlocked sets as they are (buyItem would return true); on a locked item
\* with coins >= cost buyItem lowers coins by exactly the cost, adds exactly
\* that item to its set and returns true; with coins < cost it returns false
\* and changes nothing.  Coins are never negative and no item is paid twice.
C39_BuyItemOutcomes ==
    [][/\ q'.coins >= 0
       /\ ev'.op = "item" =>
            LET item == CHOOSE i \in Unlockables : i.id = ev'.item
                sets == q.unlockedItems
                with == CASE item.type = "color" ->
                               [sets EXCEPT !.colors = @ \cup {item.id}]
                          [] item.type = "spoiler" ->
                               [sets EXCEPT !.spoilers = @ \cup {item.id}]
                          [] item.type = "tire" ->
                               [sets EXCEPT !.tires = @ \cup {item.id}]
            IN  IF with = sets
                THEN /\ q'.coins = q.coins
                     /\ q'.unlockedItems = sets
                     /\ ev'.ret # "false"
                ELSE IF q.coins >= item.cost
                THEN /\ q'.coins = q.coins - item.cost
                     /\ q'.unlockedItems = with
                     /\ ev'.ret = "true"
                ELSE /\ q'.coins = q.coins
                     /\ q'.unlockedItems = sets
                     /\ ev'.ret = "false"]_vars

\* After buying the blue paint the player clicked an item the remaining
\* coins cannot pay: buyItem returned false.
C39_RefusedAfterPurchase ==
    /\ ev.op = "item"
    /\ ev.ret = "false"
    /\ "#3b82f6" \in q.unlockedItems.colors
    /\ q.coins < SavedCoins

====
